---- MODULE Spec2Model ----
(***************************************************************************)
(* Flood-risk prediction service: the /predict request pipeline            *)
(* (validation, feature assembly, model inference, risk scoring), as       *)
(* documented with its code in REQUEST_FLOW_EXPLANATION.md and             *)
(* backend/README.md.                                                      *)
(*                                                                         *)
(* Numbers.  Probabilities are fixed-point: the integer p stands for       *)
(* p / Scale.  A field value of a request is a record [kind, v]: kind      *)
(* "finite" with an integer v, "nan", or "inf" with v the sign; on the     *)
(* wire a value may also be of kind "string" (a non-numeric JSON value).   *)
(***************************************************************************)
EXTENDS Integers, Sequences, FiniteSets, TLC

VARIABLES
    model_loaded,    \* predictor.model_loaded
    model,           \* the loaded classifier artifact (an opaque, fixed function)
    feature_names,   \* predictor.feature_names: the metadata's column order
    pc,              \* the request's state in the orchestrator
    body,            \* the JSON body as sent: a sequence of <<name, value>>
    request,         \* the parsed PredictionRequest
    input_df,        \* the one-row frame _prepare_input returns
    probabilities,   \* predict_proba's row: <<p_no_flood, p_flood>>
    response,        \* the PredictionResponse
    status,          \* HTTP status of the answer, 0 while none
    infer_calls,     \* calls of model.predict_proba made for this request
    batch_items,     \* POST /predict/batch: the bodies of the predictions list
    batch_results,   \* the results of the items handled so far
    batch_response   \* the batch response, once built

VARIABLES
    provider,           \* how the weather provider answers the call in hand
    samples,            \* the provider's daily precipitation, most recent last
    elevation_src,      \* the provider's elevation of the point
    wx_pc,              \* GET /weather/live: the state of the operation
    wx_response,        \* its response
    formData,           \* PredictionForm: the form's 13 values
    isFetchingWeather,  \* PredictionForm: a live fetch is awaited
    fetch_count,        \* live fetches started
    form_edits          \* edits of the form made by hand

VARIABLES
    hist_pc,            \* GET /weather/history: the state of the operation
    hist_provider,      \* how the weather provider answers the call in hand
    hist_today,         \* the day the call is made on, as a day number
    hist_days,          \* the days the provider has, oldest first
    hist_response,      \* its response
    chart_data,         \* HistoricalChart: the entries charted
    chart_loading       \* HistoricalChart: a fetch is awaited

VARIABLES
    load_count,         \* times the model artifact was loaded
    served,             \* requests answered since startup
    answers,            \* what each /predict request was answered, in order
    info_response       \* the last answer of /health or /model/info

VARIABLES
    inflight            \* the requests being handled concurrently

VARIABLES
    result,             \* PredictionPage: the prediction shown
    page_error,         \* PredictionPage: the error shown
    lastRequest,        \* PredictionPage: the request given to the result card
    result_of,          \* the request whose answer `result` is
    isLoading,          \* PredictionPage: a prediction is awaited
    pending,            \* the calls of predictFlood not yet settled
    prediction_history, \* localStorage 'prediction-history'
    flood_alerts,       \* localStorage 'flood-alerts', newest first
    alerts,             \* AlertCenter: the alerts it holds
    submits             \* predictions submitted, which numbers their ids

VARIABLES
    locations,          \* ComparisonTool: the locations compared
    tool_isLoading,     \* ComparisonTool: a comparison is awaited
    tool_runs,          \* the runs of runComparison not yet settled
    tool_sent,          \* the requests the tool has sent to /predict
    tool_steps          \* actions taken in the tool, which numbers its ids

VARIABLES
    chart_coords,       \* HistoricalChart: the lat/lon it is given
    chart_fetches,      \* its fetches not yet settled
    coord_changes       \* changes of the coordinates

batch_vars == <<batch_items, batch_results, batch_response>>

page_vars == <<result, page_error, lastRequest, result_of, isLoading, pending,
               prediction_history, flood_alerts, alerts, submits>>

tool_vars == <<locations, tool_isLoading, tool_runs, tool_sent, tool_steps>>

race_vars == <<chart_coords, chart_fetches, coord_changes>>

ui_vars == <<page_vars, tool_vars, race_vars>>

core_vars == <<model_loaded, model, feature_names, pc, body, request, input_df,
               probabilities, response, status, infer_calls>>

weather_vars == <<provider, samples, elevation_src, wx_pc, wx_response,
                  formData, isFetchingWeather, fetch_count, form_edits>>

history_vars == <<hist_pc, hist_provider, hist_today, hist_days, hist_response,
                  chart_data, chart_loading>>

server_vars == <<load_count, served, answers, info_response>>

ext_vars == <<weather_vars, history_vars, server_vars, inflight, ui_vars>>

vars == <<model_loaded, model, feature_names, pc, body, request, input_df,
          probabilities, response, status, infer_calls, batch_vars, ext_vars>>

-----------------------------------------------------------------------------
(* Bounds of the model *)

\* at most this many fields of the sample request are replaced in a body
MaxEdits == 1
\* the wire orders of a body: rotations of the declared order by 0..MaxShift
MaxShift == 1
\* the classifier artifacts considered: 0..MaxArtifact
MaxArtifact == 1
\* at most this many fields of a request object are replaced when the
\* assembler is exercised on its own
MaxNonFinite == 2
\* the longest predictions list of a batch request
MaxBatch == 2
\* calls of predict_flood waiting while another one runs
MaxSuspended == 1
\* requests the server takes after startup in one behaviour
MaxRequests == 3
\* the longest daily series the provider supplies to live aggregation
MaxDays == 15
\* live fetches started from the form in one behaviour
MaxFetches == 2
\* edits of the form made by hand in one behaviour
MaxFormEdits == 1

-----------------------------------------------------------------------------
(* Fixed point and values *)

\* probabilities are counted in units of 1/Scale
Scale == 100000
Half == Scale \div 2

Fin(n) == [kind |-> "finite", v |-> n]
NaN == [kind |-> "nan", v |-> 0]
PosInf == [kind |-> "inf", v |-> 1]
NegInf == [kind |-> "inf", v |-> -1]
Str == [kind |-> "string", v |-> 0]
Zero == Fin(0)

IsFinite(x) == x.kind = "finite"

Abs(n) == IF n < 0 THEN -n ELSE n

NoResponse == [flood_probability |-> -1, risk_level |-> "none",
               is_flood_predicted |-> FALSE, confidence |-> -1]

-----------------------------------------------------------------------------
(* Risk Classifier / Scorer *)

LowThreshold == 3 * (Scale \div 10)
MediumThreshold == 7 * (Scale \div 10)

_calculate_risk_level(probability) ==
    IF probability < LowThreshold THEN "Low"
    ELSE IF probability < MediumThreshold THEN "Medium"
    ELSE "High"

\* the distance from the boundary, not rescaled
ConfidenceUnscaled(flood_probability) == Abs(flood_probability - Half)

Confidence(flood_probability) == Abs(flood_probability - Half) * 2

\* the flood decision with a strict comparison
FloodPredictedStrict(flood_probability) == flood_probability > Half

IsFloodPredicted(flood_probability) == flood_probability >= Half

-----------------------------------------------------------------------------
(* Requests *)

\* the 13 fields of PredictionRequest, in declaration order
FieldNames == <<"lat", "lon", "date", "elevation", "slope", "landcover",
                "precip_1d", "precip_3d", "precip_7d", "precip_14d",
                "dis_last", "dis_trend_3", "dayofyear">>

NumFields == Len(FieldNames)

Fields == {FieldNames[i] : i \in 1..NumFields}

IntFields == {"date", "landcover", "dayofyear"}

\* the sample request of the documentation, in whole units
SampleValue(f) ==
    CASE f = "lat" -> 24
      [] f = "lon" -> 90
      [] f = "date" -> 180
      [] f = "elevation" -> 10
      [] f = "slope" -> 1
      [] f = "landcover" -> 11
      [] f = "precip_1d" -> 50
      [] f = "precip_3d" -> 120
      [] f = "precip_7d" -> 200
      [] f = "precip_14d" -> 300
      [] f = "dis_last" -> 1500
      [] f = "dis_trend_3" -> 100
      [] f = "dayofyear" -> 180

\* the field names rotated left by k: one order a client may serialise in
Rotate(names, k) ==
    [i \in 1..Len(names) |-> names[((i - 1 + k) % Len(names)) + 1]]

WireOrders == {Rotate(FieldNames, k) : k \in 0..MaxShift}

\* what a client may put in place of a sample value; "omit" leaves the field out
Omit == [kind |-> "omit", v |-> 0]
EditValues == {Fin(7), Fin(-1000), NaN, PosInf, Str, Omit}

Edits == UNION {[S -> EditValues] :
                    S \in {T \in SUBSET Fields : Cardinality(T) <= MaxEdits}}

WireValue(edit, f) == IF f \in DOMAIN edit THEN edit[f] ELSE Fin(SampleValue(f))

\* the JSON object a client sends: the fields in the client's order
MakeBody(order, edit) ==
    LET present == SelectSeq(order, LAMBDA f : WireValue(edit, f) # Omit)
    IN  [i \in 1..Len(present) |-> <<present[i], WireValue(edit, present[i])>>]

Bodies == {MakeBody(o, e) : o \in WireOrders, e \in Edits}

HasField(b, f) == \E i \in 1..Len(b) : b[i][1] = f

\* the value the body gives field f (JSON objects are read by name)
FieldOf(b, f) == b[CHOOSE i \in 1..Len(b) : b[i][1] = f][2]

-----------------------------------------------------------------------------
(* Validation of the body against PredictionRequest *)

\* a type check that lets every JSON value through
TypeOkAny(f, x) == x.kind \in {"finite", "nan", "inf", "string"}

\* a float field takes any JSON number; an int field takes integers only
TypeOk(f, x) ==
    IF f \in IntFields THEN x.kind = "finite" ELSE x.kind \in {"finite", "nan", "inf"}

\* x >= lo and x <= hi as comparisons of numbers: false of NaN in both
AtLeast(x, lo) ==
    \/ x.kind = "finite" /\ x.v >= lo
    \/ x.kind = "inf" /\ x.v = 1

AtMost(x, hi) ==
    \/ x.kind = "finite" /\ x.v <= hi
    \/ x.kind = "inf" /\ x.v = -1

\* the ranges of the fields
RangeOk(f, x) ==
    CASE f = "lat" -> AtLeast(x, -90) /\ AtMost(x, 90)
      [] f = "lon" -> AtLeast(x, -180) /\ AtMost(x, 180)
      [] f \in {"date", "dayofyear"} -> AtLeast(x, 1) /\ AtMost(x, 365)
      [] f \in {"slope", "precip_1d", "precip_3d", "precip_7d", "precip_14d",
                "dis_last"} -> AtLeast(x, 0)
      [] OTHER -> TRUE

\* the status of the answer to a body that fails validation
validation_error_status == 422

Valid(b) ==
    \A f \in Fields :
        /\ HasField(b, f)
        /\ TypeOk(f, FieldOf(b, f))
        /\ RangeOk(f, FieldOf(b, f))

\* the PredictionRequest object built from a valid body
Parse(b) == [f \in Fields |-> FieldOf(b, f)]

-----------------------------------------------------------------------------
(* Feature Assembler *)

\* the column orders the metadata may declare: the documented order, and it
\* reversed
Reversed(names) == [i \in 1..Len(names) |-> names[Len(names) + 1 - i]]

MetadataOrders == {FieldNames, Reversed(FieldNames)}

\* pd.DataFrame([data], columns=feature_names): the row, column i being the
\* entry of data named feature_names[i], NaN where data has no such entry
Frame(data, columns) ==
    [i \in 1..Len(columns) |->
        IF columns[i] \in DOMAIN data THEN data[columns[i]] ELSE NaN]

\* df.replace([np.inf, -np.inf], np.nan)
ReplaceInf(row) == [i \in 1..Len(row) |-> IF row[i].kind = "inf" THEN NaN ELSE row[i]]

\* df.fillna(0.0)
FillNa(row) == [i \in 1..Len(row) |-> IF row[i].kind = "nan" THEN Zero ELSE row[i]]

\* the frame laid out in the order of the data dict, not of the metadata
PrepareInputDictOrder(req, columns) == FillNa(ReplaceInf(Frame(req, FieldNames)))

\* the frame with NaN filled but infinities left in place
PrepareInputKeepInf(req, columns) == FillNa(Frame(req, columns))

_prepare_input(req, columns) == FillNa(ReplaceInf(Frame(req, columns)))

-----------------------------------------------------------------------------
(* Risk Model *)

\* the probabilities a classifier may answer with, the tier and decision
\* boundaries and their neighbours among them
ProbGrid == <<0, 15000, 29999, 30000, 30001, 45000, 49999, 50000, 50001,
              59999, 60000, 60001, 65000, 69999, 70000, 70001, 85000, 100000>>

\* a classifier sees its input by position only: the weighted sum of the row
RowCode(row) ==
    LET F[i \in 0..Len(row)] == IF i = 0 THEN 0 ELSE F[i - 1] + i * row[i].v
    IN  F[Len(row)]

\* a classifier whose answer moves with the requests answered before
PredictProbaDrifting(artifact, row) ==
    LET p == ProbGrid[((artifact + RowCode(row) + Len(answers)) % Len(ProbGrid)) + 1]
    IN  <<Scale - p, p>>

\* model.predict_proba(df)[0]: a fixed function of the artifact and the row
predict_proba(artifact, row) ==
    LET p == ProbGrid[((artifact + RowCode(row)) % Len(ProbGrid)) + 1]
    IN  <<Scale - p, p>>

-----------------------------------------------------------------------------
(* The prediction form, and the other components at rest *)

Undefined == [kind |-> "undefined", v |-> 0]

\* the form as PredictionForm first shows it, in tenths; the two day fields
\* hold the day of the week the form was opened on
FormDefault(f) ==
    CASE f = "lat"         -> 238
      [] f = "lon"         -> 904
      [] f = "date"        -> 20
      [] f = "elevation"   -> 105
      [] f = "slope"       -> 5
      [] f = "landcover"   -> 110
      [] f = "precip_1d"   -> 500
      [] f = "precip_3d"   -> 1200
      [] f = "precip_7d"   -> 2000
      [] f = "precip_14d"  -> 3000
      [] f = "dis_last"    -> 15000
      [] f = "dis_trend_3" -> 1000
      [] f = "dayofyear"   -> 20

DefaultForm == [f \in Fields |-> Fin(FormDefault(f))]

NoWeatherResponse == [ok |-> FALSE, error |-> "none", data |-> <<>>]
NoHistoryResponse == [ok |-> FALSE, error |-> "none", dates |-> <<>>,
                      precipitation |-> <<>>, temperature |-> <<>>]

\* no weather call is in hand and the form is untouched
NoWeather ==
    /\ provider = "ok"
    /\ samples = <<>>
    /\ elevation_src = 0
    /\ wx_pc = "idle"
    /\ wx_response = NoWeatherResponse
    /\ formData = DefaultForm
    /\ isFetchingWeather = FALSE
    /\ fetch_count = 0
    /\ form_edits = 0

NoHistory ==
    /\ hist_pc = "idle"
    /\ hist_provider = "ok"
    /\ hist_today = 0
    /\ hist_days = <<>>
    /\ hist_response = NoHistoryResponse
    /\ chart_data = <<>>
    /\ chart_loading = FALSE

NoInfo == [kind |-> "none", model_loaded |-> FALSE, feature_names |-> <<>>,
           feature_count |-> 0]

\* the server has started and has answered nothing yet
NoServerLog ==
    /\ load_count = 1
    /\ served = 0
    /\ answers = <<>>
    /\ info_response = NoInfo

NoRequest == [f \in Fields |-> Omit]

\* the prediction page as first shown, with nothing stored
NoPage ==
    /\ result = NoResponse
    /\ page_error = "none"
    /\ lastRequest = NoRequest
    /\ result_of = NoRequest
    /\ isLoading = FALSE
    /\ pending = <<>>
    /\ prediction_history = <<>>
    /\ flood_alerts = <<>>
    /\ alerts = <<>>
    /\ submits = 0

\* the comparison tool as first shown
NoTool ==
    /\ locations = <<>>
    /\ tool_isLoading = FALSE
    /\ tool_runs = <<>>
    /\ tool_sent = {}
    /\ tool_steps = 0

\* the chart before its first fetch
NoRace ==
    /\ chart_coords = 0
    /\ chart_fetches = <<>>
    /\ coord_changes = 0

NoUi ==
    /\ NoPage
    /\ NoTool
    /\ NoRace

NoExt ==
    /\ NoWeather
    /\ NoHistory
    /\ NoServerLog
    /\ inflight = <<>>
    /\ NoUi

-----------------------------------------------------------------------------
(* Prediction Orchestrator: POST /predict *)

NoFrame == <<>>
NoProbabilities == <<>>
NoBatchResponse == [predictions |-> <<>>, total_count |-> -1, high_risk_count |-> -1]

\* no batch request is being handled
NoBatch ==
    /\ batch_items = <<>>
    /\ batch_results = <<>>
    /\ batch_response = NoBatchResponse

SampleBody == MakeBody(FieldNames, <<>>)

\* the except clause of predict_flood: `except Exception` takes every exception
\* raised in the try block, the HTTPException of the model check among them,
\* and answers 500
predict_flood_except(raised) == 500

\* the state a new request is in, whatever the server's state
Receive(b) ==
    /\ pc = "Received"
    /\ body = b
    /\ request = NoRequest
    /\ input_df = NoFrame
    /\ probabilities = NoProbabilities
    /\ response = NoResponse
    /\ status = 0
    /\ infer_calls = 0

\* the server after startup: the model and its metadata loaded, or not
Started ==
    /\ model_loaded \in BOOLEAN
    /\ model \in 0..MaxArtifact
    /\ feature_names \in MetadataOrders

Init ==
    /\ Started
    /\ \E b \in Bodies : Receive(b)
    /\ NoBatch
    /\ NoExt

\* the framework validates the body against PredictionRequest before the
\* handler runs; a body that fails is answered 422
ValidateRequest ==
    /\ pc = "Received"
    /\ IF Valid(body)
       THEN /\ request' = Parse(body)
            /\ pc' = "Validated"
            /\ status' = status
       ELSE /\ status' = validation_error_status
            /\ pc' = "Failed"
            /\ request' = request
    /\ UNCHANGED <<model_loaded, model, feature_names, body, input_df,
                   probabilities, response, infer_calls, batch_vars, ext_vars>>

\* a handler that loads the model when it finds none
AssembleFeaturesLazyLoad ==
    /\ pc = "Validated"
    /\ model_loaded' = TRUE
    /\ feature_names' = IF model_loaded THEN feature_names ELSE FieldNames
    /\ input_df' = _prepare_input(request, feature_names')
    /\ pc' = "FeatureAssembled"
    /\ UNCHANGED <<model, body, request, probabilities, response, status,
                   infer_calls, batch_vars, ext_vars>>

\* predict_flood up to the end of _prepare_input: the model check, then the frame
AssembleFeatures ==
    /\ pc = "Validated"
    /\ IF ~model_loaded
       THEN /\ status' = predict_flood_except(503)
            /\ pc' = "Failed"
            /\ input_df' = input_df
       ELSE /\ input_df' = _prepare_input(request, feature_names)
            /\ pc' = "FeatureAssembled"
            /\ status' = status
    /\ UNCHANGED <<model_loaded, model, feature_names, body, request,
                   probabilities, response, infer_calls, batch_vars, ext_vars>>

\* inference that, when the library fails, stays where it is to be called again
InferRetrying ==
    /\ pc = "FeatureAssembled"
    /\ infer_calls < 3
    /\ infer_calls' = infer_calls + 1
    /\ \/ /\ probabilities' = predict_proba(model, input_df)
          /\ pc' = "Inferred"
       \/ /\ probabilities' = probabilities
          /\ pc' = pc
    /\ UNCHANGED <<model_loaded, model, feature_names, body, request, input_df,
                   response, status, batch_vars, ext_vars>>

\* self.model.predict_proba(input_df): it answers, or the library raises and
\* predict_flood's except clause answers for it
Infer ==
    /\ pc = "FeatureAssembled"
    /\ infer_calls' = infer_calls + 1
    /\ \/ /\ probabilities' = predict_proba(model, input_df)
          /\ pc' = "Inferred"
          /\ status' = status
       \/ /\ probabilities' = probabilities
          /\ status' = predict_flood_except(500)
          /\ pc' = "Failed"
    /\ UNCHANGED <<model_loaded, model, feature_names, body, request, input_df,
                   response, batch_vars, ext_vars>>

\* the rest of predict: confidence, risk level, and the response object
Score ==
    /\ pc = "Inferred"
    /\ LET flood_probability == probabilities[2]
       IN  response' = [flood_probability |-> flood_probability,
                        risk_level |-> _calculate_risk_level(flood_probability),
                        is_flood_predicted |-> IsFloodPredicted(flood_probability),
                        confidence |-> Confidence(flood_probability)]
    /\ pc' = "Scored"
    /\ UNCHANGED <<model_loaded, model, feature_names, body, request, input_df,
                   probabilities, status, infer_calls, batch_vars, ext_vars>>

\* predict_flood logs and returns the prediction: 200
Return ==
    /\ pc = "Scored"
    /\ status' = 200
    /\ pc' = "Returned"
    /\ UNCHANGED <<model_loaded, model, feature_names, body, request, input_df,
                   probabilities, response, infer_calls, batch_vars, ext_vars>>

Next ==
    \/ ValidateRequest
    \/ AssembleFeatures
    \/ Infer
    \/ Score
    \/ Return

Spec == Init /\ [][Next]_vars

-----------------------------------------------------------------------------
(* The assembler and what follows it, on every request object that the      *)
(* types of PredictionRequest admit                                         *)

\* values a float field of a request object may hold
AssembleValues == {Fin(7), NaN, PosInf, NegInf}

AssembleEdits == UNION {[S -> AssembleValues] :
                    S \in {T \in SUBSET Fields : Cardinality(T) <= MaxNonFinite}}

\* every field present and of its type, any float field possibly non-finite
TypedBodies == {b \in {MakeBody(FieldNames, e) : e \in AssembleEdits} :
                    \A f \in Fields : HasField(b, f) /\ TypeOk(f, FieldOf(b, f))}

InitAssemble ==
    /\ model_loaded = TRUE
    /\ model = 0
    /\ feature_names \in MetadataOrders
    /\ \E b \in TypedBodies :
        /\ pc = "Validated"
        /\ body = b
        /\ request = Parse(b)
    /\ input_df = NoFrame
    /\ probabilities = NoProbabilities
    /\ response = NoResponse
    /\ status = 0
    /\ infer_calls = 0
    /\ NoBatch
    /\ NoExt

NextAssemble ==
    \/ AssembleFeatures
    \/ Infer
    \/ Score
    \/ Return

SpecAssemble == InitAssemble /\ [][NextAssemble]_vars

-----------------------------------------------------------------------------
(* The scorer on every probability a classifier can answer *)

InitScore ==
    /\ model_loaded = TRUE
    /\ model = 0
    /\ feature_names = FieldNames
    /\ pc = "Inferred"
    /\ body = SampleBody
    /\ request = Parse(SampleBody)
    /\ input_df = _prepare_input(Parse(SampleBody), FieldNames)
    /\ \E p \in 0..Scale : probabilities = <<Scale - p, p>>
    /\ response = NoResponse
    /\ status = 0
    /\ infer_calls = 1
    /\ NoBatch
    /\ NoExt

NextScore ==
    \/ Score
    \/ Return

SpecScore == InitScore /\ [][NextScore]_vars

-----------------------------------------------------------------------------
(* Prediction Orchestrator: POST /predict/batch.  Each item of the list is *)
(* taken through the steps of a single prediction, its result is kept, and *)
(* the response gives the results with the two counts.                     *)

\* the items a batch is made of: the sample request with precip_1d as sent,
\* replaced or left out
BatchBodies == {MakeBody(FieldNames, e) :
                    e \in {<<>>} \cup [{"precip_1d"} -> EditValues]}

Batches == UNION {[1..n -> BatchBodies] : n \in 0..MaxBatch}

\* what one item came to: its response, or the status it failed with
ItemResult ==
    [ok |-> pc = "Returned", status |-> status,
     prediction |-> IF pc = "Returned" THEN response ELSE NoResponse]

\* counts the results that are not Low
CountNotLow(results) ==
    Cardinality({i \in 1..Len(results) :
                    results[i].ok /\ results[i].prediction.risk_level # "Low"})

high_risk_count(results) ==
    Cardinality({i \in 1..Len(results) :
                    results[i].ok /\ results[i].prediction.risk_level = "High"})

\* item k of the batch is taken up as a request of its own
TakeItem(k) ==
    /\ pc' = "Received"
    /\ body' = batch_items[k]
    /\ request' = NoRequest
    /\ input_df' = NoFrame
    /\ probabilities' = NoProbabilities
    /\ response' = NoResponse
    /\ status' = 0
    /\ infer_calls' = 0

InitBatch ==
    /\ Started
    /\ NoExt
    /\ batch_items \in Batches
    /\ batch_results = <<>>
    /\ batch_response = NoBatchResponse
    /\ IF Len(batch_items) > 0
       THEN Receive(batch_items[1])
       ELSE /\ pc = "Idle"
            /\ body = <<>>
            /\ request = NoRequest
            /\ input_df = NoFrame
            /\ probabilities = NoProbabilities
            /\ response = NoResponse
            /\ status = 0
            /\ infer_calls = 0

\* a batch that gives up at the first item that fails
BatchCollectAborting ==
    /\ pc \in {"Returned", "Failed"}
    /\ Len(batch_results) < Len(batch_items)
    /\ IF pc = "Failed"
       THEN /\ batch_results' = batch_results
            /\ batch_response' = [predictions |-> <<>>, total_count |-> 0,
                                  high_risk_count |-> 0]
            /\ pc' = "Done"
            /\ UNCHANGED <<body, request, input_df, probabilities, response,
                           status, infer_calls>>
       ELSE /\ batch_results' = Append(batch_results, ItemResult)
            /\ batch_response' = batch_response
            /\ IF Len(batch_results) + 1 < Len(batch_items)
               THEN TakeItem(Len(batch_results) + 2)
               ELSE /\ pc' = "Idle"
                    /\ UNCHANGED <<body, request, input_df, probabilities,
                                   response, status, infer_calls>>
    /\ UNCHANGED <<model_loaded, model, feature_names, batch_items, ext_vars>>

\* the item in hand has ended: keep its result and take up the next item
BatchCollect ==
    /\ pc \in {"Returned", "Failed"}
    /\ Len(batch_results) < Len(batch_items)
    /\ batch_results' = Append(batch_results, ItemResult)
    /\ IF Len(batch_results) + 1 < Len(batch_items)
       THEN TakeItem(Len(batch_results) + 2)
       ELSE /\ pc' = "Idle"
            /\ UNCHANGED <<body, request, input_df, probabilities, response,
                           status, infer_calls>>
    /\ UNCHANGED <<model_loaded, model, feature_names, batch_items,
                   batch_response, ext_vars>>

\* every item has ended: the batch response
BatchRespond ==
    /\ pc = "Idle"
    /\ Len(batch_results) = Len(batch_items)
    /\ batch_response = NoBatchResponse
    /\ batch_response' = [predictions |-> batch_results,
                          total_count |-> Len(batch_items),
                          high_risk_count |-> high_risk_count(batch_results)]
    /\ status' = 200
    /\ pc' = "Done"
    /\ UNCHANGED <<model_loaded, model, feature_names, body, request, input_df,
                   probabilities, response, infer_calls, batch_items,
                   batch_results, ext_vars>>

NextBatch ==
    \/ ValidateRequest
    \/ AssembleFeatures
    \/ Infer
    \/ Score
    \/ Return
    \/ BatchCollect
    \/ BatchRespond

SpecBatch == InitBatch /\ [][NextBatch]_vars

-----------------------------------------------------------------------------
(* Properties: feature assembly *)

Assembled == input_df # NoFrame

\* the body with its members in another order
Reorder(b, order) == [i \in 1..Len(order) |-> <<order[i], FieldOf(b, order[i])>>]

OtherOrders == WireOrders \cup {Reversed(FieldNames)}

\* what the assembler makes of a field value
Sanitized(x) == IF IsFinite(x) THEN x ELSE Zero

\* C1 as stated: the assembled vector has 13 elements, the i-th being the
\* value of the request field named feature_names[i]
C1_VectorIsFieldValues ==
    Assembled =>
        /\ Len(input_df) = NumFields
        /\ \A i \in 1..NumFields : input_df[i] = FieldOf(body, feature_names[i])

\* C1 amended: the assembled vector has 13 elements, the i-th being the value
\* of the request field named feature_names[i] when that value is finite and
\* 0.0 when it is not; the same body in any other member order gives the same
\* vector
C1_VectorFollowsMetadata ==
    Assembled =>
        /\ Len(input_df) = NumFields
        /\ Len(input_df) = Len(feature_names)
        /\ \A i \in 1..NumFields :
               input_df[i] = Sanitized(FieldOf(body, feature_names[i]))
        /\ \A o \in OtherOrders :
               _prepare_input(Parse(Reorder(body, o)), feature_names) = input_df

\* a body sent in another order than the declared one, date and dayofyear
\* differing, assembled for metadata in reversed order
C1_Witness ==
    /\ pc = "FeatureAssembled"
    /\ body[1][1] # "lat"
    /\ feature_names = Reversed(FieldNames)
    /\ FieldOf(body, "date") = Fin(7)
    /\ input_df[1] = Fin(180)
    /\ input_df[11] = Fin(7)

\* C5: assembly replaces exactly the non-finite fields by 0.0, passes the
\* finite ones unchanged, and raises nothing: the request goes on to inference
C5_NonFiniteBecomeZero ==
    /\ pc # "Validated" => Assembled
    /\ pc = "Failed" => infer_calls = 1
    /\ pc = "FeatureAssembled" => status = 0
    /\ Assembled =>
        \A i \in 1..NumFields :
            LET x == request[feature_names[i]]
            IN  /\ x.kind \in {"nan", "inf"} => input_df[i] = Zero
                /\ x.kind = "finite" => input_df[i] = x
                /\ input_df[i].kind = "finite"

\* a request with a NaN and an infinity has reached inference
C5_Witness ==
    /\ pc = "Inferred"
    /\ request["elevation"] = NaN
    /\ request["precip_1d"] = NegInf
    /\ input_df[CHOOSE i \in 1..NumFields : feature_names[i] = "elevation"] = Zero
    /\ input_df[CHOOSE i \in 1..NumFields : feature_names[i] = "precip_1d"] = Zero
    /\ input_df[CHOOSE i \in 1..NumFields : feature_names[i] = "lat"] = Fin(24)

-----------------------------------------------------------------------------
(* Properties: the scorer *)

HasResponse == pc \in {"Scored", "Returned"}

\* the tiers with the boundaries at 0.3 and 0.6
TierAt06(p) ==
    IF p < 3 * (Scale \div 10) THEN "Low"
    ELSE IF p < 6 * (Scale \div 10) THEN "Medium"
    ELSE "High"

\* C2: risk_level is Low exactly when p < 0.3, Medium exactly when
\* 0.3 <= p < 0.6, High exactly when p >= 0.6
C2_TiersAt03And06 ==
    HasResponse => response.risk_level = TierAt06(response.flood_probability)

\* C3: is_flood_predicted is true exactly when p >= 0.5, and the tier does not
\* determine it: a Medium response's decision has a Medium probability with
\* the opposite decision
C3_FloodPredictedAtHalf ==
    HasResponse =>
        /\ response.flood_probability = probabilities[2]
        /\ response.is_flood_predicted = (response.flood_probability >= Half)
        /\ response.risk_level = "Medium" =>
               \E q \in {Half - 1, Half} :
                   /\ _calculate_risk_level(q) = "Medium"
                   /\ IsFloodPredicted(q) # response.is_flood_predicted

\* a Medium response that predicts a flood
C3_Witness ==
    /\ pc = "Returned"
    /\ response.risk_level = "Medium"
    /\ response.is_flood_predicted = TRUE

-----------------------------------------------------------------------------
(* Properties: the orchestrator *)

Terminal == {"Returned", "Failed"}

\* C6: a valid request received while the model is not loaded is answered 503
\* and inference is never attempted for it
C6_NotLoadedAnswers503 ==
    (~model_loaded /\ Valid(body) /\ pc \in Terminal) =>
        /\ status = 503
        /\ infer_calls = 0

WronglyTyped(f, x) ==
    \/ x.kind = "string"
    \/ f \in IntFields /\ x.kind # "finite"

Malformed(b) ==
    \E f \in Fields :
        \/ ~HasField(b, f)
        \/ HasField(b, f) /\ WronglyTyped(f, FieldOf(b, f))
        \/ HasField(b, f) /\ ~RangeOk(f, FieldOf(b, f))

StateOrder == <<"Received", "Validated", "FeatureAssembled", "Inferred",
                "Scored", "Returned">>

\* one step of a request: to the next state of the order, or from a state
\* that is not terminal to Failed with an error status; at most one inference
C8_Step ==
    /\ pc' # pc
    /\ pc \notin Terminal
    /\ \/ \E i \in 1..(Len(StateOrder) - 1) :
              pc = StateOrder[i] /\ pc' = StateOrder[i + 1]
       \/ pc' = "Failed" /\ status' \in {422, 500, 503}
    /\ infer_calls' = IF pc = "FeatureAssembled" THEN infer_calls + 1 ELSE infer_calls
    /\ infer_calls' <= 1

\* C8: a request passes Received, Validated, FeatureAssembled, Inferred,
\* Scored, Returned in that order without skipping, an error moves it to
\* Failed, Returned and Failed are terminal, and no step is run twice
C8_StateMachine == [][C8_Step]_vars

\* a request has been answered after exactly one inference
C8_Witness ==
    /\ pc = "Returned"
    /\ status = 200
    /\ infer_calls = 1

-----------------------------------------------------------------------------
(* Properties: batch prediction *)

\* the response of a single prediction of body b whose inference answers
SingleResponse(b) ==
    LET p == predict_proba(model, _prepare_input(Parse(b), feature_names))[2]
    IN  [flood_probability |-> p,
         risk_level |-> _calculate_risk_level(p),
         is_flood_predicted |-> IsFloodPredicted(p),
         confidence |-> Confidence(p)]

FailedWith(code) == [ok |-> FALSE, status |-> code, prediction |-> NoResponse]

\* the terminal results body b can come to as a single prediction
SingleOutcomes(b) ==
    IF ~Valid(b) THEN {FailedWith(422)}
    ELSE IF ~model_loaded THEN {FailedWith(predict_flood_except(503))}
    ELSE {[ok |-> TRUE, status |-> 200, prediction |-> SingleResponse(b)],
          FailedWith(predict_flood_except(500))}

\* C9: every item of a batch comes to a terminal result of its own, the one it
\* would get as a single prediction, whether or not other items failed, and
\* the batch is answered with a result for every item
C9_ItemsIndependent ==
    /\ Len(batch_results) <= Len(batch_items)
    /\ \A k \in 1..Len(batch_results) :
           batch_results[k] \in SingleOutcomes(batch_items[k])
    /\ pc = "Done" =>
           /\ status = 200
           /\ Len(batch_results) = Len(batch_items)
           /\ batch_response.predictions = batch_results

\* a batch answered whose first item failed and whose second was predicted
C9_Witness ==
    /\ pc = "Done"
    /\ Len(batch_items) = 2
    /\ ~batch_response.predictions[1].ok
    /\ batch_response.predictions[2].ok

\* the number of returned results among the first n that are High
HighAmong(results, n) ==
    LET F[i \in 0..n] ==
            IF i = 0 THEN 0
            ELSE F[i - 1] + (IF results[i].ok /\ results[i].prediction.risk_level = "High"
                             THEN 1 ELSE 0)
    IN  F[n]

\* C10: total_count is the length of the request's predictions list,
\* high_risk_count the number of returned results that are High, and
\* 0 <= high_risk_count <= total_count
C10_BatchCounts ==
    pc = "Done" =>
        /\ batch_response.total_count = Len(batch_items)
        /\ batch_response.high_risk_count =
               HighAmong(batch_response.predictions, Len(batch_response.predictions))
        /\ 0 <= batch_response.high_risk_count
        /\ batch_response.high_risk_count <= batch_response.total_count

\* a batch of two answered with one High result and one Medium
C10_Witness ==
    /\ pc = "Done"
    /\ batch_response.total_count = 2
    /\ batch_response.high_risk_count = 1
    /\ \E k \in 1..2 : /\ batch_response.predictions[k].ok
                       /\ batch_response.predictions[k].prediction.risk_level = "Medium"

-----------------------------------------------------------------------------
(* Weather Aggregation Service: GET /weather/live.  The provider supplies   *)
(* the elevation of the point and a series of daily precipitation, the most *)
(* recent day last; the service answers the elevation and the rainfall of   *)
(* the trailing 1, 3, 7 and 14 days.                                        *)

\* the window lengths, by the field each fills
precip_1d_days == 1
precip_3d_days == 3
precip_7d_days == 7
precip_14d_days == 14

LiveFields == {"elevation", "precip_1d", "precip_3d", "precip_7d", "precip_14d"}

SumSeq(s) ==
    LET F[i \in 0..Len(s)] == IF i = 0 THEN 0 ELSE F[i - 1] + s[i]
    IN  F[Len(s)]

\* the sum of the first n samples
LeadingSum(s, n) ==
    SumSeq(SubSeq(s, 1, IF Len(s) > n THEN n ELSE Len(s)))

\* the sum of the last n samples, and no sum when the series is shorter
TrailingSumFullOnly(s, n) ==
    IF Len(s) < n THEN 0 ELSE SumSeq(SubSeq(s, Len(s) - n + 1, Len(s)))

\* the sum of the last n samples, of all of them when there are fewer
TrailingSum(s, n) ==
    SumSeq(SubSeq(s, IF Len(s) > n THEN Len(s) - n + 1 ELSE 1, Len(s)))

\* the live patch with the two longest windows exchanged
LiveAggregateSwapped(s, elev) ==
    [elevation  |-> Fin(elev),
     precip_1d  |-> Fin(TrailingSum(s, precip_1d_days)),
     precip_3d  |-> Fin(TrailingSum(s, precip_14d_days)),
     precip_7d  |-> Fin(TrailingSum(s, precip_7d_days)),
     precip_14d |-> Fin(TrailingSum(s, precip_3d_days))]

\* the live patch of a point
live_aggregate(s, elev) ==
    [elevation  |-> Fin(elev),
     precip_1d  |-> Fin(TrailingSum(s, precip_1d_days)),
     precip_3d  |-> Fin(TrailingSum(s, precip_3d_days)),
     precip_7d  |-> Fin(TrailingSum(s, precip_7d_days)),
     precip_14d |-> Fin(TrailingSum(s, precip_14d_days))]

source_unavailable == "SourceUnavailable"

\* the ways the provider answers a call: with data, with an error, with
\* a body that cannot be read, or not at all
ProviderOutcomes == {"ok", "unreachable", "malformed", "silent"}

\* the service has answered with the failure it keeps for its source
SourceFailed(r) == ~r.ok /\ r.error = source_unavailable

\* the service calls the provider
WeatherCall ==
    /\ wx_pc = "requested"
    /\ wx_pc' = "calling"
    /\ UNCHANGED <<provider, samples, elevation_src, wx_response, formData,
                   isFetchingWeather, fetch_count, form_edits>>
    /\ UNCHANGED <<core_vars, batch_vars, history_vars, server_vars, inflight, ui_vars>>

\* the provider's data has come: the patch is computed and answered
Aggregate ==
    /\ wx_pc = "calling"
    /\ provider = "ok"
    /\ wx_response' = [ok |-> TRUE, error |-> "none",
                       data |-> live_aggregate(samples, elevation_src)]
    /\ wx_pc' = "answered"
    /\ UNCHANGED <<provider, samples, elevation_src, formData,
                   isFetchingWeather, fetch_count, form_edits>>
    /\ UNCHANGED <<core_vars, batch_vars, history_vars, server_vars, inflight, ui_vars>>

\* the provider cannot be reached or its body cannot be read
ProviderFails ==
    /\ wx_pc = "calling"
    /\ provider \in {"unreachable", "malformed"}
    /\ wx_response' = [ok |-> FALSE, error |-> source_unavailable, data |-> <<>>]
    /\ wx_pc' = "answered"
    /\ UNCHANGED <<provider, samples, elevation_src, formData,
                   isFetchingWeather, fetch_count, form_edits>>
    /\ UNCHANGED <<core_vars, batch_vars, history_vars, server_vars, inflight, ui_vars>>

\* the provider says nothing: the call is given up when its time is over
ProviderTimeout ==
    /\ wx_pc = "calling"
    /\ provider = "silent"
    /\ wx_response' = [ok |-> FALSE, error |-> source_unavailable, data |-> <<>>]
    /\ wx_pc' = "answered"
    /\ UNCHANGED <<provider, samples, elevation_src, formData,
                   isFetchingWeather, fetch_count, form_edits>>
    /\ UNCHANGED <<core_vars, batch_vars, history_vars, server_vars, inflight, ui_vars>>

-----------------------------------------------------------------------------
(* PredictionForm: the form's values, edits by hand, and fetchLiveData *)

\* what JavaScript takes for true among the values a field can hold
Truthy(x) == (x.kind = "finite" /\ x.v # 0) \/ x.kind = "inf"

\* the texts typed into a field
TypedTexts == {"7", "", "Infinity"}

parseFloat(text) ==
    CASE text = "7"        -> Fin(70)
      [] text = ""         -> NaN
      [] text = "Infinity" -> PosInf

\* handleChange: the field takes parseFloat(value) || 0
handleChange(prev, name, text) ==
    [prev EXCEPT ![name] = IF Truthy(parseFloat(text)) THEN parseFloat(text)
                           ELSE Zero]

\* the fields a hand edit goes to
EditedFields == {"lat", "slope", "precip_1d"}

\* data.f of a response body
Get(data, f) == IF f \in DOMAIN data THEN data[f] ELSE Undefined

\* the fields fetchLiveData takes from the response when it has them
KeptFields == {"slope", "landcover", "dis_last", "dis_trend_3"}

\* the form made of the response alone
ApplyLiveReplacing(prev, data) == [f \in Fields |-> Get(data, f)]

\* the functional update of fetchLiveData
ApplyLive(prev, data) ==
    [f \in Fields |->
        IF f \in LiveFields THEN Get(data, f)
        ELSE IF f \in KeptFields /\ Truthy(Get(data, f)) THEN Get(data, f)
        ELSE prev[f]]

\* 1, 2, 4, ...: every day's rain tells which days a sum took
PowerSeries(n) == [i \in 1..n |-> 2 ^ (i - 1)]

\* the series the provider has for the point of the form
LiveSeries == {<<10>>, <<0, 0, 0>>, PowerSeries(precip_14d_days)}

EditForm ==
    /\ form_edits < MaxFormEdits
    /\ form_edits' = form_edits + 1
    /\ \E name \in EditedFields, text \in TypedTexts :
        formData' = handleChange(formData, name, text)
    /\ UNCHANGED <<provider, samples, elevation_src, wx_pc, wx_response,
                   isFetchingWeather, fetch_count>>
    /\ UNCHANGED <<core_vars, batch_vars, history_vars, server_vars, inflight, ui_vars>>

\* fetchLiveData up to the await; its button is disabled while a fetch is awaited
FetchLiveData ==
    /\ ~isFetchingWeather
    /\ fetch_count < MaxFetches
    /\ fetch_count' = fetch_count + 1
    /\ isFetchingWeather' = TRUE
    /\ wx_pc' = "requested"
    /\ wx_response' = NoWeatherResponse
    /\ provider' \in ProviderOutcomes
    /\ samples' \in LiveSeries
    /\ elevation_src' \in {0, 42}
    /\ UNCHANGED <<formData, form_edits>>
    /\ UNCHANGED <<core_vars, batch_vars, history_vars, server_vars, inflight, ui_vars>>

\* a handler that zeroes the live fields when the fetch has failed
LiveDataSettledZeroing ==
    /\ isFetchingWeather
    /\ wx_pc = "answered"
    /\ formData' = IF wx_response.ok
                   THEN ApplyLive(formData, wx_response.data)
                   ELSE [f \in Fields |-> IF f \in LiveFields THEN Zero
                                          ELSE formData[f]]
    /\ isFetchingWeather' = FALSE
    /\ wx_pc' = "settled"
    /\ UNCHANGED <<provider, samples, elevation_src, wx_response, fetch_count,
                   form_edits>>
    /\ UNCHANGED <<core_vars, batch_vars, history_vars, server_vars, inflight, ui_vars>>

\* a handler that clears the flag on success only
LiveDataSettledNoFinally ==
    /\ isFetchingWeather
    /\ wx_pc = "answered"
    /\ formData' = IF wx_response.ok
                   THEN ApplyLive(formData, wx_response.data)
                   ELSE formData
    /\ isFetchingWeather' = ~wx_response.ok
    /\ wx_pc' = "settled"
    /\ UNCHANGED <<provider, samples, elevation_src, wx_response, fetch_count,
                   form_edits>>
    /\ UNCHANGED <<core_vars, batch_vars, history_vars, server_vars, inflight, ui_vars>>

\* fetchLiveData after the await: the update on success, the alert on
\* failure, and the flag cleared in either case
LiveDataSettled ==
    /\ isFetchingWeather
    /\ wx_pc = "answered"
    /\ formData' = IF wx_response.ok
                   THEN ApplyLive(formData, wx_response.data)
                   ELSE formData
    /\ isFetchingWeather' = FALSE
    /\ wx_pc' = "settled"
    /\ UNCHANGED <<provider, samples, elevation_src, wx_response, fetch_count,
                   form_edits>>
    /\ UNCHANGED <<core_vars, batch_vars, history_vars, server_vars, inflight, ui_vars>>

\* the rest of the system while the form and the weather service run
Quiet ==
    /\ model_loaded = TRUE
    /\ model = 0
    /\ feature_names = FieldNames
    /\ Receive(SampleBody)
    /\ NoBatch
    /\ NoHistory
    /\ NoServerLog
    /\ inflight = <<>>
    /\ NoUi

InitWeather ==
    /\ Quiet
    /\ NoWeather

NextWeather ==
    \/ EditForm
    \/ FetchLiveData
    \/ WeatherCall
    \/ Aggregate
    \/ ProviderFails
    \/ ProviderTimeout
    \/ LiveDataSettled

SpecWeather == InitWeather /\ [][NextWeather]_vars

\* the service and the handler's continuation run whenever they can; the
\* user is not bound to edit or to fetch
SpecWeatherFair ==
    /\ SpecWeather
    /\ WF_vars(WeatherCall)
    /\ WF_vars(Aggregate)
    /\ WF_vars(ProviderFails)
    /\ WF_vars(ProviderTimeout)
    /\ WF_vars(LiveDataSettled)

-----------------------------------------------------------------------------
(* Live aggregation on every series the provider can supply *)

AggregateSeries ==
    UNION {[1..n -> {0, 1}] \cup {PowerSeries(n)} : n \in 1..MaxDays}

\* the service has the provider's answer in hand for a fetch of the form
InitAggregate ==
    /\ Quiet
    /\ provider = "ok"
    /\ samples \in AggregateSeries
    /\ elevation_src = 42
    /\ wx_pc = "calling"
    /\ wx_response = NoWeatherResponse
    /\ formData = DefaultForm
    /\ isFetchingWeather = TRUE
    /\ fetch_count = 1
    /\ form_edits = 0

NextAggregate ==
    \/ Aggregate
    \/ LiveDataSettled

SpecAggregate == InitAggregate /\ [][NextAggregate]_vars

-----------------------------------------------------------------------------
(* Properties of live aggregation *)

\* the service has answered a patch
LiveAnswered == wx_pc \in {"answered", "settled"} /\ wx_response.ok

\* the rain of days lo..hi of the provider's series
DaySum(lo, hi) ==
    LET F[i \in (lo - 1)..hi] == IF i < lo THEN 0 ELSE F[i - 1] + samples[i]
    IN  F[hi]

\* C11: of 14 daily values d0..d13, the most recent last, live aggregation
\* answers precip_1d = d13, precip_3d = d11 + d12 + d13, precip_7d = the sum
\* of d7..d13 and precip_14d = the sum of d0..d13.
C11_FourteenDays ==
    (LiveAnswered /\ Len(samples) = 14) =>
        /\ wx_response.data.precip_1d = Fin(samples[14])
        /\ wx_response.data.precip_3d =
               Fin(samples[12] + samples[13] + samples[14])
        /\ wx_response.data.precip_7d = Fin(DaySum(8, 14))
        /\ wx_response.data.precip_14d = Fin(DaySum(1, 14))

\* fourteen days that all differ, and the patch that tells the windows apart
C11_Witness ==
    /\ LiveAnswered
    /\ samples = PowerSeries(14)
    /\ wx_response.data.precip_1d = Fin(2 ^ 13)
    /\ wx_response.data.precip_3d = Fin(2 ^ 11 + 2 ^ 12 + 2 ^ 13)
    /\ wx_response.data.precip_7d = Fin(2 ^ 14 - 2 ^ 7)
    /\ wx_response.data.precip_14d = Fin(2 ^ 14 - 1)

\* the provider's series put at the end of 14 days, the days before it dry
Padded ==
    [i \in 1..14 |-> IF i <= 14 - Len(samples) THEN 0
                     ELSE samples[i - (14 - Len(samples))]]

PaddedSum(n) ==
    LET F[i \in (14 - n)..14] == IF i = 14 - n THEN 0 ELSE F[i - 1] + Padded[i]
    IN  F[14]

\* C12: with fewer than 14 daily samples, one included, live aggregation
\* does not fail, and each N-day window is the sum of the samples there are
\* among the trailing N days, the days before them counting as zero.
C12_ShortHistory ==
    (wx_pc \in {"answered", "settled"} /\ provider = "ok" /\ Len(samples) < 14) =>
        /\ wx_response.ok
        /\ wx_response.data.precip_1d = Fin(PaddedSum(1))
        /\ wx_response.data.precip_3d = Fin(PaddedSum(3))
        /\ wx_response.data.precip_7d = Fin(PaddedSum(7))
        /\ wx_response.data.precip_14d = Fin(PaddedSum(14))

\* one day of rain is all the provider has, and every window holds it
C12_Witness ==
    /\ LiveAnswered
    /\ samples = <<1>>
    /\ \A f \in LiveFields \ {"elevation"} : wx_response.data[f] = Fin(1)

\* C13: for every series of non-negative daily samples, of any length, the
\* four sums satisfy 0 <= precip_1d <= precip_3d <= precip_7d <= precip_14d.
C13_WindowsMonotone ==
    LiveAnswered =>
        /\ 0 <= wx_response.data.precip_1d.v
        /\ wx_response.data.precip_1d.v <= wx_response.data.precip_3d.v
        /\ wx_response.data.precip_3d.v <= wx_response.data.precip_7d.v
        /\ wx_response.data.precip_7d.v <= wx_response.data.precip_14d.v

\* rain on each of 15 days: the sums grow, and the oldest day is in none
C13_Witness ==
    /\ LiveAnswered
    /\ samples = [i \in 1..15 |-> 1]
    /\ wx_response.data.precip_1d.v < wx_response.data.precip_3d.v
    /\ wx_response.data.precip_3d.v < wx_response.data.precip_7d.v
    /\ wx_response.data.precip_7d.v < wx_response.data.precip_14d.v
    /\ wx_response.data.precip_14d.v = 14

-----------------------------------------------------------------------------
(* Weather Aggregation Service: GET /weather/history, and the chart that    *)
(* shows it.  The provider supplies daily samples of precipitation and of   *)
(* maximum temperature; the service answers the 30 days ending today.       *)

\* the days of a historical series
HistoryDays == 30

\* the mark of a day the provider did not supply
Missing == [kind |-> "missing", v |-> 0]

\* the provider's sample of a day
DaySample(d) ==
    [date |-> d, precipitation |-> d % 3, temperature |-> 20 + (d % 5)]

\* what the provider has: the last n days up to today, the day `gap` days
\* before today left out when gap is not 0, oldest first
ProviderDays(today, n, gap) ==
    LET first == today - n + 1
        hole == IF gap = 0 THEN today + 1 ELSE today - gap
        dateAt(k) == IF first + k - 1 >= hole THEN first + k ELSE first + k - 1
        len == IF hole \in first..today THEN n - 1 ELSE n
    IN  [k \in 1..len |-> DaySample(dateAt(k))]

\* the value of day d in what the provider supplied, or the mark
ValueOf(days, d, field) ==
    IF \E k \in 1..Len(days) : days[k].date = d
    THEN Fin((CHOOSE r \in {days[k] : k \in 1..Len(days)} : r.date = d)[field])
    ELSE Missing

\* the answer made of the supplied days alone
HistorySeriesShrinking(days, today) ==
    [ok |-> TRUE, error |-> "none",
     dates |-> [k \in 1..Len(days) |-> days[k].date],
     precipitation |-> [k \in 1..Len(days) |-> Fin(days[k].precipitation)],
     temperature |-> [k \in 1..Len(days) |-> Fin(days[k].temperature)]]

\* the answer: the 30 days ending today, oldest first, each with the
\* provider's values or with the mark
history_series(days, today) ==
    [ok |-> TRUE, error |-> "none",
     dates |-> [i \in 1..HistoryDays |-> today - HistoryDays + i],
     precipitation |-> [i \in 1..HistoryDays |->
                           ValueOf(days, today - HistoryDays + i, "precipitation")],
     temperature |-> [i \in 1..HistoryDays |->
                           ValueOf(days, today - HistoryDays + i, "temperature")]]

HistoryFailure ==
    [ok |-> FALSE, error |-> source_unavailable, dates |-> <<>>,
     precipitation |-> <<>>, temperature |-> <<>>]

\* HistoricalChart's effect up to the await
FetchHistory ==
    /\ hist_pc = "idle"
    /\ hist_pc' = "requested"
    /\ chart_loading' = TRUE
    /\ hist_provider' \in ProviderOutcomes
    /\ hist_today' \in {HistoryDays, 365}
    /\ \E n \in 1..(HistoryDays + 1) : \E gap \in 0..(n - 1) :
        hist_days' = ProviderDays(hist_today', n, gap)
    /\ UNCHANGED <<hist_response, chart_data>>
    /\ UNCHANGED <<core_vars, batch_vars, weather_vars, server_vars, inflight, ui_vars>>

\* the service calls the provider
HistoryCall ==
    /\ hist_pc = "requested"
    /\ hist_pc' = "calling"
    /\ UNCHANGED <<hist_provider, hist_today, hist_days, hist_response,
                   chart_data, chart_loading>>
    /\ UNCHANGED <<core_vars, batch_vars, weather_vars, server_vars, inflight, ui_vars>>

\* the provider's days have come: the series is answered
HistoryAnswer ==
    /\ hist_pc = "calling"
    /\ hist_provider = "ok"
    /\ hist_response' = history_series(hist_days, hist_today)
    /\ hist_pc' = "answered"
    /\ UNCHANGED <<hist_provider, hist_today, hist_days, chart_data,
                   chart_loading>>
    /\ UNCHANGED <<core_vars, batch_vars, weather_vars, server_vars, inflight, ui_vars>>

\* the provider fails, or says nothing until the call is given up
HistoryFails ==
    /\ hist_pc = "calling"
    /\ hist_provider # "ok"
    /\ hist_response' = HistoryFailure
    /\ hist_pc' = "answered"
    /\ UNCHANGED <<hist_provider, hist_today, hist_days, chart_data,
                   chart_loading>>
    /\ UNCHANGED <<core_vars, batch_vars, weather_vars, server_vars, inflight, ui_vars>>

\* element i of an array, as JavaScript reads it
At(a, i) == IF i \in 1..Len(a) THEN a[i] ELSE Undefined

\* dates.map(...) of fetchData
ChartData(r) ==
    [i \in 1..Len(r.dates) |->
        [rawDate |-> r.dates[i],
         precipitation |-> At(r.precipitation, i),
         temperature |-> At(r.temperature, i)]]

\* HistoricalChart's effect after the await
ChartSettled ==
    /\ hist_pc = "answered"
    /\ chart_loading
    /\ chart_data' = IF hist_response.ok THEN ChartData(hist_response)
                     ELSE chart_data
    /\ chart_loading' = FALSE
    /\ hist_pc' = "settled"
    /\ UNCHANGED <<hist_provider, hist_today, hist_days, hist_response>>
    /\ UNCHANGED <<core_vars, batch_vars, weather_vars, server_vars, inflight, ui_vars>>

InitHistory ==
    /\ model_loaded = TRUE
    /\ model = 0
    /\ feature_names = FieldNames
    /\ Receive(SampleBody)
    /\ NoBatch
    /\ NoExt

NextHistory ==
    \/ FetchHistory
    \/ HistoryCall
    \/ HistoryAnswer
    \/ HistoryFails
    \/ ChartSettled

SpecHistory == InitHistory /\ [][NextHistory]_vars

-----------------------------------------------------------------------------
(* Properties of the historical series *)

HistoryAnswered == hist_pc \in {"answered", "settled"} /\ hist_response.ok

Supplied(d) == \E k \in 1..Len(hist_days) : hist_days[k].date = d

\* C14: every successful historical-series response has dates, precipitation
\* and temperature of length 30 each, in chronological order with index 0 the
\* oldest day; a day the provider did not supply is flagged as missing, and
\* the response is never a shorter array without such a flag.
C14_ThirtyDaysOrFlagged ==
    HistoryAnswered =>
        /\ Len(hist_response.dates) = 30
        /\ Len(hist_response.precipitation) = 30
        /\ Len(hist_response.temperature) = 30
        /\ hist_response.dates[30] = hist_today
        /\ \A i \in 1..29 :
            hist_response.dates[i + 1] = hist_response.dates[i] + 1
        /\ \A i \in 1..30 :
            IF Supplied(hist_response.dates[i])
            THEN /\ hist_response.precipitation[i] =
                        Fin(DaySample(hist_response.dates[i]).precipitation)
                 /\ hist_response.temperature[i] =
                        Fin(DaySample(hist_response.dates[i]).temperature)
            ELSE /\ hist_response.precipitation[i] = Missing
                 /\ hist_response.temperature[i] = Missing

\* the provider had 12 days with one of them lacking: 30 entries are
\* answered and charted, 19 of them flagged
C14_Witness ==
    /\ hist_pc = "settled"
    /\ hist_response.ok
    /\ Len(hist_days) = 11
    /\ ~Supplied(hist_today - 4)
    /\ Len(chart_data) = 30
    /\ Cardinality({i \in 1..30 : chart_data[i].precipitation = Missing}) = 19
    /\ chart_data[27].precipitation # Missing
    /\ chart_data[26].temperature = Missing

-----------------------------------------------------------------------------
(* Properties of the live fetch: the service and the form *)

\* the step of fetchLiveData that follows the await
SettleStep == wx_pc = "answered" /\ wx_pc' = "settled"

\* C15: when the fetch from the provider fails, times out or brings
\* malformed data, the weather operation ends in the SourceUnavailable error
\* and answers no patch, zeroed or other; on such a failure the form's
\* values are left as they were.
C15_FailureIsDistinct ==
    /\ []((wx_pc \in {"answered", "settled"} /\ provider # "ok") =>
            /\ ~wx_response.ok
            /\ wx_response.error = "SourceUnavailable"
            /\ wx_response.data = <<>>)
    /\ [][(SettleStep /\ ~wx_response.ok) => formData' = formData]_vars

\* a second fetch has failed on a malformed body, and the form still holds
\* what the first fetch brought
C15_Witness ==
    /\ wx_pc = "settled"
    /\ provider = "malformed"
    /\ SourceFailed(wx_response)
    /\ fetch_count = 2
    /\ formData["precip_14d"] = Fin(2 ^ 14 - 1)
    /\ formData["elevation"] = Fin(42)

C17_LiveFrame ==
    /\ [](LiveAnswered =>
            DOMAIN wx_response.data =
                {"elevation", "precip_1d", "precip_3d", "precip_7d", "precip_14d"})
    /\ [][(SettleStep /\ wx_response.ok) =>
            /\ \A f \in {"lat", "lon", "date", "dayofyear", "slope", "landcover",
                         "dis_last", "dis_trend_3"} : formData'[f] = formData[f]
            /\ \A f \in {"elevation", "precip_1d", "precip_3d", "precip_7d",
                         "precip_14d"} : formData'[f] = wx_response.data[f]]_vars

\* a slope typed by hand outlives the fetch that set the five live fields
C17_Witness ==
    /\ wx_pc = "settled"
    /\ wx_response.ok
    /\ form_edits = 1
    /\ formData["slope"] = Fin(70)
    /\ formData["lat"] = Fin(238)
    /\ formData["elevation"] = Fin(42)
    /\ formData["precip_1d"] = Fin(10)
    /\ formData["precip_14d"] = Fin(10)

-----------------------------------------------------------------------------
(* The server process: startup, then requests one after another on          *)
(* /predict, /predict/batch, /health and /model/info                        *)

\* the bodies sent to the server: the sample, the sample with another
\* precip_1d, and the sample with a text for precip_1d
ServerBodies ==
    {SampleBody,
     MakeBody(FieldNames, [f \in {"precip_1d"} |-> Fin(7)]),
     MakeBody(FieldNames, [f \in {"precip_1d"} |-> Str])}

ServerBatches == {<<SampleBody>>, <<SampleBody, SampleBody>>}

\* the process before startup
InitServer ==
    /\ model_loaded = FALSE
    /\ model = 0
    /\ feature_names = <<>>
    /\ pc = "Down"
    /\ body = <<>>
    /\ request = NoRequest
    /\ input_df = NoFrame
    /\ probabilities = NoProbabilities
    /\ response = NoResponse
    /\ status = 0
    /\ infer_calls = 0
    /\ NoBatch
    /\ NoWeather
    /\ NoHistory
    /\ load_count = 0
    /\ served = 0
    /\ answers = <<>>
    /\ info_response = NoInfo
    /\ inflight = <<>>
    /\ NoUi

\* startup: the artifact and its metadata are loaded, or the load fails and
\* the server runs without a model
LoadModel ==
    /\ pc = "Down"
    /\ load_count' = load_count + 1
    /\ \/ /\ model_loaded' = TRUE
          /\ model' \in 0..MaxArtifact
          /\ feature_names' \in MetadataOrders
       \/ /\ model_loaded' = FALSE
          /\ UNCHANGED <<model, feature_names>>
    /\ pc' = "Ready"
    /\ UNCHANGED <<body, request, input_df, probabilities, response, status,
                   infer_calls, served, answers, info_response>>
    /\ UNCHANGED <<batch_vars, weather_vars, history_vars, inflight, ui_vars>>

\* a POST /predict arrives
NewRequest ==
    /\ pc = "Ready"
    /\ served < MaxRequests
    /\ \E b \in ServerBodies : body' = b
    /\ pc' = "Received"
    /\ request' = NoRequest
    /\ input_df' = NoFrame
    /\ probabilities' = NoProbabilities
    /\ response' = NoResponse
    /\ status' = 0
    /\ infer_calls' = 0
    /\ UNCHANGED <<model_loaded, model, feature_names, batch_vars, ext_vars>>

\* a POST /predict/batch arrives
NewBatch ==
    /\ pc = "Ready"
    /\ served < MaxRequests
    /\ batch_items' \in ServerBatches
    /\ batch_results' = <<>>
    /\ batch_response' = NoBatchResponse
    /\ pc' = "Received"
    /\ body' = batch_items'[1]
    /\ request' = NoRequest
    /\ input_df' = NoFrame
    /\ probabilities' = NoProbabilities
    /\ response' = NoResponse
    /\ status' = 0
    /\ infer_calls' = 0
    /\ UNCHANGED <<model_loaded, model, feature_names, ext_vars>>

\* GET /health
Health ==
    /\ load_count > 0
    /\ info_response' = [kind |-> "health", model_loaded |-> model_loaded,
                         feature_names |-> <<>>, feature_count |-> 0]
    /\ UNCHANGED <<load_count, served, answers>>
    /\ UNCHANGED <<core_vars, batch_vars, weather_vars, history_vars, inflight, ui_vars>>

\* GET /model/info
ModelInfo ==
    /\ load_count > 0
    /\ model_loaded
    /\ info_response' = [kind |-> "model_info", model_loaded |-> model_loaded,
                         feature_names |-> feature_names,
                         feature_count |-> Len(feature_names)]
    /\ UNCHANGED <<load_count, served, answers>>
    /\ UNCHANGED <<core_vars, batch_vars, weather_vars, history_vars, inflight, ui_vars>>

\* the answer is sent: a /predict answer is noted down, and the server
\* waits for the next request
ServerDone ==
    /\ \/ pc = "Done"
       \/ pc \in {"Returned", "Failed"} /\ Len(batch_items) = 0
    /\ answers' = IF pc = "Done" THEN answers
                  ELSE Append(answers, [body |-> body, ok |-> pc = "Returned",
                                        status |-> status, response |-> response])
    /\ served' = served + 1
    /\ pc' = "Ready"
    /\ batch_items' = <<>>
    /\ batch_results' = <<>>
    /\ batch_response' = NoBatchResponse
    /\ UNCHANGED <<model_loaded, model, feature_names, body, request, input_df,
                   probabilities, response, status, infer_calls>>
    /\ UNCHANGED <<load_count, info_response, weather_vars, history_vars,
                   inflight, ui_vars>>

NextServer ==
    \/ LoadModel
    \/ NewRequest
    \/ NewBatch
    \/ Health
    \/ ModelInfo
    \/ ValidateRequest
    \/ AssembleFeatures
    \/ Infer
    \/ Score
    \/ Return
    \/ BatchCollect
    \/ BatchRespond
    \/ ServerDone

SpecServer == InitServer /\ [][NextServer]_vars

-----------------------------------------------------------------------------
(* Properties of the server process *)

\* C18: the model and its metadata are loaded at most once, before any
\* request is served; from then on, over every sequence of predict, batch,
\* model-info and health requests, the model, the ordered feature names and
\* model_loaded stay as they are, and the model is not loaded again.
C18_LoadedOnce ==
    /\ [](/\ load_count <= 1
          /\ load_count = 0 =>
                /\ pc = "Down"
                /\ served = 0
                /\ answers = <<>>
                /\ info_response = NoInfo)
    /\ [][load_count >= 1 =>
            /\ model_loaded' = model_loaded
            /\ model' = model
            /\ feature_names' = feature_names
            /\ load_count' = load_count]_vars

\* a server that loaded once has answered a prediction, a model-info and
\* a second request, and has a batch answered
C18_Witness ==
    /\ load_count = 1
    /\ model_loaded
    /\ feature_names = Reversed(FieldNames)
    /\ served = 2
    /\ Len(answers) >= 1
    /\ info_response.kind = "model_info"
    /\ pc = "Done"
    /\ batch_response.total_count = 2

\* C19: with the model loaded and fixed, the same PredictionRequest sent any
\* number of times, other requests coming in between, is answered the same
\* PredictionResponse each time.
C19_SameRequestSameResponse ==
    \A i, j \in 1..Len(answers) :
        (answers[i].body = answers[j].body /\ answers[i].ok /\ answers[j].ok) =>
            /\ answers[i].response.flood_probability =
                   answers[j].response.flood_probability
            /\ answers[i].response.risk_level = answers[j].response.risk_level
            /\ answers[i].response.is_flood_predicted =
                   answers[j].response.is_flood_predicted
            /\ answers[i].response.confidence = answers[j].response.confidence

\* the same request answered first and third, another one in between with
\* another probability
C19_Witness ==
    /\ Len(answers) = 3
    /\ answers[1].ok /\ answers[2].ok /\ answers[3].ok
    /\ answers[1].body = answers[3].body
    /\ answers[2].body # answers[1].body
    /\ answers[2].response.flood_probability #
           answers[1].response.flood_probability
    /\ answers[3].response = answers[1].response

-----------------------------------------------------------------------------
(* Concurrent predictions.  Each call of predict_flood has its own request, *)
(* frame, probabilities and response; the predictor's model and feature     *)
(* names are the one thing the calls have in common.  One call runs at a    *)
(* time and the others wait where they were left.                           *)

\* the locals of the running call
Task ==
    [pc |-> pc, body |-> body, request |-> request, input_df |-> input_df,
     probabilities |-> probabilities, response |-> response, status |-> status,
     infer_calls |-> infer_calls]

\* a call that has just received body b
NewTask(b) ==
    [pc |-> "Received", body |-> b, request |-> NoRequest, input_df |-> NoFrame,
     probabilities |-> NoProbabilities, response |-> NoResponse, status |-> 0,
     infer_calls |-> 0]

\* calls that keep their frame in one place for all
SwitchSharingFrame ==
    /\ \E i \in 1..Len(inflight) :
        /\ pc' = inflight[i].pc
        /\ body' = inflight[i].body
        /\ request' = inflight[i].request
        /\ input_df' = input_df
        /\ probabilities' = inflight[i].probabilities
        /\ response' = inflight[i].response
        /\ status' = inflight[i].status
        /\ infer_calls' = inflight[i].infer_calls
        /\ inflight' = [inflight EXCEPT ![i] = Task]
    /\ UNCHANGED <<model_loaded, model, feature_names, batch_vars,
                   weather_vars, history_vars, server_vars, ui_vars>>

\* the running call is left where it is and a waiting one goes on
Switch ==
    /\ \E i \in 1..Len(inflight) :
        /\ pc' = inflight[i].pc
        /\ body' = inflight[i].body
        /\ request' = inflight[i].request
        /\ input_df' = inflight[i].input_df
        /\ probabilities' = inflight[i].probabilities
        /\ response' = inflight[i].response
        /\ status' = inflight[i].status
        /\ infer_calls' = inflight[i].infer_calls
        /\ inflight' = [inflight EXCEPT ![i] = Task]
    /\ UNCHANGED <<model_loaded, model, feature_names, batch_vars,
                   weather_vars, history_vars, server_vars, ui_vars>>

InitConcurrent ==
    /\ Started
    /\ \E b \in ServerBodies : Receive(b)
    /\ \E n \in 1..MaxSuspended :
        inflight \in [1..n -> {NewTask(b) : b \in ServerBodies}]
    /\ NoBatch
    /\ NoWeather
    /\ NoHistory
    /\ NoServerLog
    /\ NoUi

NextConcurrent ==
    \/ ValidateRequest
    \/ AssembleFeatures
    \/ Infer
    \/ Score
    \/ Return
    \/ Switch

SpecConcurrent == InitConcurrent /\ [][NextConcurrent]_vars

-----------------------------------------------------------------------------
(* Properties of concurrent predictions *)

\* the calls in flight, the running one first
AllTasks == <<Task>> \o inflight

\* what a call has come to, in the form of a single prediction's result
Outcome(t) ==
    [ok |-> t.pc = "Returned", status |-> t.status,
     prediction |-> IF t.pc = "Returned" THEN t.response ELSE NoResponse]

\* C20: predictions handled concurrently do not interfere: whatever the
\* interleaving of the steps of the calls in flight, each call is answered
\* what it would be answered alone, and no step writes what another call
\* reads: not the model, not the feature names, not a waiting call's locals.
C20_NoInterference ==
    /\ [](\A k \in 1..Len(AllTasks) :
            AllTasks[k].pc \in {"Returned", "Failed"} =>
                Outcome(AllTasks[k]) \in SingleOutcomes(AllTasks[k].body))
    /\ [][/\ model_loaded' = model_loaded
          /\ model' = model
          /\ feature_names' = feature_names
          /\ \/ inflight' = inflight
             \/ /\ Len(inflight') = Len(inflight)
                /\ \E i \in 1..Len(inflight) :
                    /\ Task' = inflight[i]
                    /\ inflight'[i] = Task
                    /\ \A j \in 1..Len(inflight) \ {i} :
                        inflight'[j] = inflight[j]]_vars

\* one call has its own answer while another, of another request, waits
\* with its frame assembled
C20_Witness ==
    /\ pc = "Returned"
    /\ response = SingleResponse(body)
    /\ inflight[1].pc = "FeatureAssembled"
    /\ inflight[1].body # body
    /\ inflight[1].input_df # input_df
    /\ SingleResponse(inflight[1].body).flood_probability #
           response.flood_probability

-----------------------------------------------------------------------------
(* RiskGauge: the colour of the gauge's arc *)

GaugeLowThreshold == 3 * (Scale \div 10)
GaugeMediumThreshold == 6 * (Scale \div 10)

getGaugeColor(probability) ==
    IF probability < GaugeLowThreshold THEN "var(--risk-low)"
    ELSE IF probability < GaugeMediumThreshold THEN "var(--risk-medium)"
    ELSE "var(--risk-high)"

\* the tier a colour of the gauge stands for
ColourTier(colour) ==
    CASE colour = "var(--risk-low)" -> "Low"
      [] colour = "var(--risk-medium)" -> "Medium"
      [] colour = "var(--risk-high)" -> "High"

\* C22: for every probability p, the tier by which the gauge colours p is the
\* risk_level the scorer gives to p: gauge and scorer have the same two
\* thresholds.
C22_GaugeAgreesWithScorer ==
    HasResponse =>
        ColourTier(getGaugeColor(response.flood_probability)) =
            response.risk_level

-----------------------------------------------------------------------------
(* PredictionPage: the form's day fields, handlePrediction, the two stored
   lists, and the AlertCenter that reads and rewrites the alerts *)

MaxPredictions == 2

\* n in the tenths the form's values are counted in
Tenths(n) == 10 * n

\* new Date().getDay(), Sunday first: a Sunday and a Saturday
OpeningDays == {0, 6}

\* the form as first shown on a day of the week
FormOpenedOn(day) ==
    [DefaultForm EXCEPT !["date"] = Fin(Tenths(day)),
                        !["dayofyear"] = Fin(Tenths(day))]

SampleData(f) ==
    CASE f = "lat"         -> 244
      [] f = "lon"         -> 886
      [] f = "date"        -> 2100
      [] f = "elevation"   -> 82
      [] f = "slope"       -> 3
      [] f = "landcover"   -> 110
      [] f = "precip_1d"   -> 850
      [] f = "precip_3d"   -> 1800
      [] f = "precip_7d"   -> 3200
      [] f = "precip_14d"  -> 4500
      [] f = "dis_last"    -> 22000
      [] f = "dis_trend_3" -> 2500
      [] f = "dayofyear"   -> 2100

\* a day, in seconds
oneDay == 60 * 60 * 24

\* the day of the year of the date that is day d of its year, by the
\* time between its midnight and the midnight that ends the year
\* before, in a browser whose clock is on UTC
dayOfYear(d) == (d * oneDay) \div oneDay

handleHistoricalDateSelect(prev, entry) ==
    [prev EXCEPT !["precip_1d"] = entry.precipitation,
                 !["precip_3d"] = entry.precipitation,
                 !["precip_7d"] = entry.precipitation,
                 !["precip_14d"] = entry.precipitation,
                 !["dayofyear"] = Fin(Tenths(dayOfYear(entry.rawDate))),
                 !["date"] = Fin(Tenths(dayOfYear(entry.rawDate)))]

\* what JSON.stringify followed by JSON.parse leaves of a number
Null == [kind |-> "null", v |-> 0]
JsonValue(x) == IF x.kind \in {"nan", "inf"} THEN Null ELSE x
JsonRequest(req) == [f \in DOMAIN req |-> JsonValue(req[f])]

\* the probabilities the service answers with
PageProbabilities == {15 * (Scale \div 100), 45 * (Scale \div 100),
                      85 * (Scale \div 100)}

\* the response the scorer makes of probability p
PredictionOf(p) ==
    [flood_probability |-> p,
     risk_level |-> _calculate_risk_level(p),
     is_flood_predicted |-> IsFloodPredicted(p),
     confidence |-> Confidence(p)]

\* the write to localStorage that throws, if one does
StorageFaults == {"none", "history", "alerts"}

historyEntry(c) ==
    [id |-> c.id, lat |-> c.request["lat"], lon |-> c.request["lon"],
     request |-> JsonRequest(c.request), response |-> c.prediction]

NewAlert(c) ==
    [id |-> c.id, lat |-> c.request["lat"], lon |-> c.request["lon"],
     riskLevel |-> c.prediction.risk_level,
     probability |-> c.prediction.flood_probability,
     isRead |-> FALSE]

\* the list the history write stores
PushHistoryOverwriting(historyArray, entry) == <<entry>>

PushHistory(historyArray, entry) == Append(historyArray, entry)

UnshiftAlert(alertsArray, alert) == <<alert>> \o alertsArray

\* the risk levels an alert is made for
AlertLevels == {"High", "Medium"}

\* the request the result card is given once a prediction has arrived
LastRequestKept(data, last) == last

LastRequestAfter(data, last) == data

form_rest == <<provider, samples, elevation_src, wx_pc, wx_response,
               isFetchingWeather, fetch_count, form_edits>>

page_frame == <<core_vars, batch_vars, history_vars, server_vars, inflight,
                tool_vars, race_vars, form_rest>>

\* the chart the form shows below it: the 30 days up to the year's last,
\* of which the provider has the last 12
ChartShown ==
    /\ hist_pc = "settled"
    /\ hist_provider = "ok"
    /\ hist_today = 365
    /\ hist_days = ProviderDays(hist_today, 12, 0)
    /\ hist_response = history_series(hist_days, hist_today)
    /\ chart_data = ChartData(hist_response)
    /\ chart_loading = FALSE

InitPage ==
    /\ model_loaded = TRUE
    /\ model = 0
    /\ feature_names = FieldNames
    /\ Receive(SampleBody)
    /\ NoBatch
    /\ NoServerLog
    /\ inflight = <<>>
    /\ provider = "ok"
    /\ samples = <<>>
    /\ elevation_src = 0
    /\ wx_pc = "idle"
    /\ wx_response = NoWeatherResponse
    /\ \E day \in OpeningDays : formData = FormOpenedOn(day)
    /\ isFetchingWeather = FALSE
    /\ fetch_count = 0
    /\ form_edits = 0
    /\ ChartShown
    /\ NoUi

fillSampleData ==
    /\ formData' = [f \in Fields |-> Fin(SampleData(f))]
    /\ UNCHANGED <<page_vars, page_frame>>

\* the day of the chart the date picker is set to: its last
PickedDays == {HistoryDays}

\* handleDateChange of the chart, and the form's handler it calls
DateSelect ==
    /\ \E i \in PickedDays \cap DOMAIN chart_data :
          formData' = handleHistoricalDateSelect(formData, chart_data[i])
    /\ UNCHANGED <<page_vars, page_frame>>

\* handleSubmit with the button enabled or not, and handlePrediction up to
\* its await
SubmitWhileLoading ==
    /\ submits < MaxPredictions
    /\ isLoading' = TRUE
    /\ page_error' = "none"
    /\ pending' = Append(pending, [id |-> submits + 1, request |-> formData,
                                   state |-> "sent", prediction |-> NoResponse,
                                   fault |-> "none"])
    /\ submits' = submits + 1
    /\ UNCHANGED <<result, lastRequest, result_of, prediction_history,
                   flood_alerts, alerts>>
    /\ UNCHANGED <<formData, page_frame>>

\* handleSubmit behind the enabled button, and handlePrediction up to its
\* await
Submit ==
    /\ ~isLoading
    /\ submits < MaxPredictions
    /\ isLoading' = TRUE
    /\ page_error' = "none"
    /\ pending' = Append(pending, [id |-> submits + 1, request |-> formData,
                                   state |-> "sent", prediction |-> NoResponse,
                                   fault |-> "none"])
    /\ submits' = submits + 1
    /\ UNCHANGED <<result, lastRequest, result_of, prediction_history,
                   flood_alerts, alerts>>
    /\ UNCHANGED <<formData, page_frame>>

\* predictFlood's promise settles: the service answers, or answers with an
\* error status, or the fetch fails; and whether the store will take the
\* writes that follow an answer
PredictSettles ==
    /\ \E i \in 1..Len(pending) :
          /\ pending[i].state = "sent"
          /\ \/ \E p \in PageProbabilities, w \in StorageFaults :
                   pending' = [pending EXCEPT ![i] =
                                  [@ EXCEPT !.state = "resolved",
                                            !.prediction = PredictionOf(p),
                                            !.fault = w]]
             \/ \E e \in {"api_error", "network_error"} :
                   pending' = [pending EXCEPT ![i] = [@ EXCEPT !.state = e]]
    /\ UNCHANGED <<result, page_error, lastRequest, result_of, isLoading,
                   prediction_history, flood_alerts, alerts, submits>>
    /\ UNCHANGED <<formData, page_frame>>

Without(s, i) == [k \in 1..(Len(s) - 1) |-> IF k < i THEN s[k] ELSE s[k + 1]]

\* handlePrediction after its await: try, catch and finally; React applies
\* the state updates of one continuation in a single render
HandleSettled ==
    /\ \E i \in 1..Len(pending) :
          LET c == pending[i]
              alerting == c.prediction.risk_level \in AlertLevels
          IN  /\ c.state # "sent"
              /\ pending' = Without(pending, i)
              /\ IF c.state = "resolved"
                 THEN /\ result' = c.prediction
                      /\ result_of' = c.request
                      /\ lastRequest' = LastRequestAfter(c.request, lastRequest)
                      /\ prediction_history' =
                            IF c.fault = "history" THEN prediction_history
                            ELSE PushHistory(prediction_history, historyEntry(c))
                      /\ flood_alerts' =
                            IF c.fault = "none" /\ alerting
                            THEN UnshiftAlert(flood_alerts, NewAlert(c))
                            ELSE flood_alerts
                      /\ page_error' =
                            IF \/ c.fault = "history"
                               \/ c.fault = "alerts" /\ alerting
                            THEN "unexpected" ELSE page_error
                 ELSE /\ page_error' = IF c.state = "api_error" THEN "api"
                                       ELSE "unexpected"
                      /\ UNCHANGED <<result, result_of, lastRequest,
                                     prediction_history, flood_alerts>>
    /\ isLoading' = FALSE
    /\ UNCHANGED <<alerts, submits>>
    /\ UNCHANGED <<formData, page_frame>>

\* the page is loaded again: every component is mounted anew, the form
\* from its saved values and the AlertCenter from the stored alerts
Reload ==
    /\ result' = NoResponse
    /\ page_error' = "none"
    /\ lastRequest' = NoRequest
    /\ result_of' = NoRequest
    /\ isLoading' = FALSE
    /\ pending' = <<>>
    /\ alerts' = flood_alerts
    /\ formData' = JsonRequest(formData)
    /\ UNCHANGED <<prediction_history, flood_alerts, submits>>
    /\ UNCHANGED page_frame

unreadCount == Cardinality({k \in 1..Len(alerts) : ~alerts[k].isRead})

markAsRead ==
    /\ \E k \in 1..Len(alerts) :
          /\ ~alerts[k].isRead
          /\ LET updated == [j \in 1..Len(alerts) |->
                                IF alerts[j].id = alerts[k].id
                                THEN [alerts[j] EXCEPT !.isRead = TRUE]
                                ELSE alerts[j]]
             IN  /\ alerts' = updated
                 /\ flood_alerts' = updated
    /\ UNCHANGED <<result, page_error, lastRequest, result_of, isLoading,
                   pending, prediction_history, submits>>
    /\ UNCHANGED <<formData, page_frame>>

markAllAsRead ==
    /\ unreadCount > 0
    /\ LET updated == [j \in 1..Len(alerts) |->
                          [alerts[j] EXCEPT !.isRead = TRUE]]
       IN  /\ alerts' = updated
           /\ flood_alerts' = updated
    /\ UNCHANGED <<result, page_error, lastRequest, result_of, isLoading,
                   pending, prediction_history, submits>>
    /\ UNCHANGED <<formData, page_frame>>

deleteAlert ==
    /\ \E k \in 1..Len(alerts) :
          LET updated == SelectSeq(alerts, LAMBDA a : a.id # alerts[k].id)
          IN  /\ alerts' = updated
              /\ flood_alerts' = updated
    /\ UNCHANGED <<result, page_error, lastRequest, result_of, isLoading,
                   pending, prediction_history, submits>>
    /\ UNCHANGED <<formData, page_frame>>

NextPage ==
    \/ fillSampleData
    \/ DateSelect
    \/ Submit
    \/ PredictSettles
    \/ HandleSettled
    \/ Reload
    \/ markAsRead
    \/ markAllAsRead
    \/ deleteAlert

SpecPage == InitPage /\ [][NextPage]_vars

\* handlePrediction by itself, on the form as it was opened
NextPredict ==
    \/ Submit
    \/ PredictSettles
    \/ HandleSettled
    \/ Reload

\* the event loop runs a continuation whose promise has settled
SpecPredictFair == InitPage /\ [][NextPredict]_vars /\ WF_vars(HandleSettled)

-----------------------------------------------------------------------------
(* Properties: the prediction page *)

\* x is a whole day of the year
IsDayOfYear(x) ==
    /\ x.kind = "finite"
    /\ x.v % Tenths(1) = 0
    /\ x.v \div Tenths(1) \in 1..365

\* C21: in every request the form submits, date and dayofyear are whole
\* numbers of days between 1 and 365.
C21_SubmittedDaysInRange ==
    \A i \in 1..Len(pending) :
        /\ IsDayOfYear(pending[i].request["date"])
        /\ IsDayOfYear(pending[i].request["dayofyear"])

\* call i of pending is handled by this step: its continuation has run
Handled(i) ==
    /\ Len(pending') < Len(pending)
    /\ pending[i].state # "sent"
    /\ IF pending[i].state = "resolved" THEN result' = pending[i].prediction
       ELSE page_error' # "none"

\* C23: isLoading is true from the moment a request is sent; the step that
\* handles a settled request, whatever it settled with and whether or not a
\* write to the store threw, leaves isLoading false, and it is taken; and
\* the form never has two predictions in flight.
C23_LoadingBracketsOneRequest ==
    /\ [](Len(pending) <= 1 /\ (pending # <<>> => isLoading))
    /\ [][(\E i \in 1..Len(pending) : Handled(i)) => ~isLoading']_vars
    /\ ((\E i \in 1..Len(pending) : pending[i].state # "sent") ~> ~isLoading)

\* a write to the store threw, the error is shown and the page is no longer
\* loading
C23_Witness ==
    /\ result # NoResponse
    /\ page_error = "unexpected"
    /\ ~isLoading
    /\ pending = <<>>

\* the step keeps the stored history and adds one entry of call c at its end
AppendsEntryOf(c) ==
    /\ Len(prediction_history') = Len(prediction_history) + 1
    /\ SubSeq(prediction_history', 1, Len(prediction_history)) =
           prediction_history
    /\ LET e == prediction_history'[Len(prediction_history')]
       IN  e.request = c.request /\ e.response = c.prediction

C25_AlertOnlyForHigh ==
    [][\A i \in 1..Len(pending) :
          (Handled(i) /\ pending[i].state = "resolved"
                      /\ pending[i].fault = "none") =>
              ((flood_alerts' # flood_alerts) <=>
                   pending[i].prediction.risk_level = "High")]_vars

AlertIds(s) == {s[k].id : k \in 1..Len(s)}

\* C26: a stored alert stays stored in every step but the deleteAlert of
\* its own id.
C26_StoredAlertsStay ==
    [][\A id \in AlertIds(flood_alerts) :
          \/ id \in AlertIds(flood_alerts')
          \/ id \in AlertIds(alerts) /\ id \notin AlertIds(alerts')]_vars

ErrorCard == page_error # "none"
ResultCard == result # NoResponse /\ page_error = "none" /\ lastRequest # NoRequest
Placeholder == result = NoResponse /\ page_error = "none"

\* C27: exactly one of the error card, the result card and the placeholder
\* is shown, and the request given to the result card is the request whose
\* answer the card shows.
C27_OneCardAndItsRequest ==
    /\ Cardinality({card \in {"error", "result", "placeholder"} :
                       \/ card = "error" /\ ErrorCard
                       \/ card = "result" /\ ResultCard
                       \/ card = "placeholder" /\ Placeholder}) = 1
    /\ ResultCard => lastRequest = result_of

\* the result card shows the second of two predictions of different requests
C27_Witness ==
    /\ ResultCard
    /\ Len(prediction_history) = 2
    /\ prediction_history[1].request # lastRequest
    /\ prediction_history[2].request = lastRequest

-----------------------------------------------------------------------------
(* HistoricalChart while the form's coordinates change *)

MaxCoordChanges == 2

hist_rest == <<hist_pc, hist_provider, hist_today, hist_days, hist_response>>

chart_frame == <<core_vars, batch_vars, hist_rest, server_vars, inflight,
                 page_vars, tool_vars, form_rest>>

\* the service's answer for place k: the provider's record differs from
\* place to place, here by the number of days it holds
HistoryAt(k) ==
    history_series(ProviderDays(HistoryDays, HistoryDays - k, 0), HistoryDays)

\* the form with the coordinates of place k
MovedTo(prev, k) ==
    [prev EXCEPT !["lat"] = Fin(FormDefault("lat") + Tenths(k)),
                 !["lon"] = Fin(FormDefault("lon") + Tenths(k))]

\* the chart is mounted and its effect has sent the request for the form's
\* first coordinates
InitChart ==
    /\ model_loaded = TRUE
    /\ model = 0
    /\ feature_names = FieldNames
    /\ Receive(SampleBody)
    /\ NoBatch
    /\ NoServerLog
    /\ inflight = <<>>
    /\ NoWeather
    /\ hist_pc = "idle"
    /\ hist_provider = "ok"
    /\ hist_today = 0
    /\ hist_days = <<>>
    /\ hist_response = NoHistoryResponse
    /\ chart_data = <<>>
    /\ chart_loading = TRUE
    /\ NoPage
    /\ NoTool
    /\ chart_coords = 0
    /\ chart_fetches = <<[coords |-> 0, state |-> "sent"]>>
    /\ coord_changes = 0

\* handleLocationSelect, and the chart's effect run again for the new
\* coordinates, up to its await
CoordsChange ==
    /\ coord_changes < MaxCoordChanges
    /\ coord_changes' = coord_changes + 1
    /\ chart_coords' = chart_coords + 1
    /\ formData' = MovedTo(formData, chart_coords')
    /\ chart_loading' = TRUE
    /\ chart_fetches' = Append(chart_fetches,
                               [coords |-> chart_coords', state |-> "sent"])
    /\ UNCHANGED <<chart_data, chart_frame>>

\* a request for the history is answered, or fails, in any order
HistorySettles ==
    /\ \E i \in 1..Len(chart_fetches), s \in {"answered", "failed"} :
          /\ chart_fetches[i].state = "sent"
          /\ chart_fetches' = [chart_fetches EXCEPT ![i].state = s]
    /\ UNCHANGED <<chart_coords, coord_changes, chart_data, chart_loading,
                   formData, chart_frame>>

\* the data the chart holds after the continuation of a fetch
SetData(fetch, data) ==
    IF fetch.state = "answered" THEN ChartData(HistoryAt(fetch.coords))
    ELSE data

\* fetchData after its await: try, catch and finally
FetchDataSettled ==
    /\ \E i \in 1..Len(chart_fetches) :
          /\ chart_fetches[i].state \in {"answered", "failed"}
          /\ chart_data' = SetData(chart_fetches[i], chart_data)
          /\ chart_fetches' =
                [chart_fetches EXCEPT ![i].state =
                    IF @ = "answered" THEN "shown" ELSE "dropped"]
    /\ chart_loading' = FALSE
    /\ UNCHANGED <<chart_coords, coord_changes, formData, chart_frame>>

NextChart ==
    \/ CoordsChange
    \/ HistorySettles
    \/ FetchDataSettled

SpecChart == InitChart /\ [][NextChart]_vars

-----------------------------------------------------------------------------
(* Properties: the chart *)

\* C28: once every request for the history has been answered and handled,
\* the chart holds the answer for the form's current coordinates, whatever
\* the order of the answers.
C28_ChartShowsCurrentCoords ==
    (\A i \in 1..Len(chart_fetches) : chart_fetches[i].state = "shown") =>
        chart_data = ChartData(HistoryAt(chart_coords))

-----------------------------------------------------------------------------
(* ComparisonTool *)

MaxToolSteps == 5

MaxLocations == 3

\* the values of a location, in tenths
newLocation(id) ==
    [id |-> id, lat |-> Fin(238), lon |-> Fin(904),
     precip_1d |-> Fin(500), precip_3d |-> Fin(1200),
     precip_7d |-> Fin(2000), precip_14d |-> Fin(3000),
     prediction |-> NoResponse]

\* the inputs of a card that are edited, and the texts left in them
ToolFields == {"lat", "precip_1d"}
ToolTexts == {"", "7"}

\* the request runComparison builds for a location on a day of the week
ComparisonRequest(loc, day) ==
    [f \in Fields |->
        CASE f = "lat"         -> loc.lat
          [] f = "lon"         -> loc.lon
          [] f = "date"        -> Fin(Tenths(day))
          [] f = "elevation"   -> Fin(100)
          [] f = "slope"       -> Fin(5)
          [] f = "landcover"   -> Fin(110)
          [] f = "precip_1d"   -> IF Truthy(loc.precip_1d) THEN loc.precip_1d
                                  ELSE Fin(500)
          [] f = "precip_3d"   -> IF Truthy(loc.precip_3d) THEN loc.precip_3d
                                  ELSE Fin(1200)
          [] f = "precip_7d"   -> IF Truthy(loc.precip_7d) THEN loc.precip_7d
                                  ELSE Fin(2000)
          [] f = "precip_14d"  -> IF Truthy(loc.precip_14d) THEN loc.precip_14d
                                  ELSE Fin(3000)
          [] f = "dis_last"    -> Fin(15000)
          [] f = "dis_trend_3" -> Fin(1000)
          [] f = "dayofyear"   -> Fin(Tenths(day))]

\* the probability the service answers a comparison with
ToolProbability == 45 * (Scale \div 100)

tool_frame == <<core_vars, batch_vars, weather_vars, history_vars, server_vars,
                inflight, page_vars, race_vars>>

InitTool ==
    /\ model_loaded = TRUE
    /\ model = 0
    /\ feature_names = FieldNames
    /\ Receive(SampleBody)
    /\ NoBatch
    /\ NoExt

\* addLocation with no limit on the list
AddLocationUnlimited ==
    /\ tool_steps < MaxToolSteps
    /\ tool_steps' = tool_steps + 1
    /\ locations' = Append(locations, newLocation(tool_steps'))
    /\ UNCHANGED <<tool_isLoading, tool_runs, tool_sent, tool_frame>>

addLocation ==
    /\ tool_steps < MaxToolSteps
    /\ tool_steps' = tool_steps + 1
    /\ locations' = IF Len(locations) >= MaxLocations THEN locations
                    ELSE Append(locations, newLocation(tool_steps'))
    /\ UNCHANGED <<tool_isLoading, tool_runs, tool_sent, tool_frame>>

removeLocation ==
    /\ tool_steps < MaxToolSteps
    /\ tool_steps' = tool_steps + 1
    /\ \E k \in 1..Len(locations) :
          locations' = SelectSeq(locations, LAMBDA loc : loc.id # locations[k].id)
    /\ UNCHANGED <<tool_isLoading, tool_runs, tool_sent, tool_frame>>

\* an input of a card changes: updateLocation with parseFloat of its text
updateLocation ==
    /\ tool_steps < MaxToolSteps
    /\ tool_steps' = tool_steps + 1
    /\ \E k \in 1..Len(locations), field \in ToolFields, text \in ToolTexts :
          locations' = [j \in 1..Len(locations) |->
                           IF locations[j].id = locations[k].id
                           THEN [locations[j] EXCEPT ![field] = parseFloat(text)]
                           ELSE locations[j]]
    /\ UNCHANGED <<tool_isLoading, tool_runs, tool_sent, tool_frame>>

\* runComparison up to its await: a request is sent for every location
runComparison ==
    /\ tool_steps < MaxToolSteps
    /\ tool_steps' = tool_steps + 1
    /\ Len(locations) > 0
    /\ ~tool_isLoading
    /\ tool_isLoading' = TRUE
    /\ tool_runs' = Append(tool_runs, locations)
    /\ \E day \in OpeningDays :
          tool_sent' = tool_sent \cup
              {ComparisonRequest(locations[k], day) : k \in 1..Len(locations)}
    /\ UNCHANGED <<locations, tool_frame>>

\* runComparison after its await: every request has been answered or has
\* failed, and the list the run started from is put back with the answers
ComparisonSettled ==
    /\ tool_runs # <<>>
    /\ \E answered \in SUBSET (1..Len(Head(tool_runs))) :
          locations' = [k \in 1..Len(Head(tool_runs)) |->
                           IF k \in answered
                           THEN [Head(tool_runs)[k] EXCEPT !.prediction =
                                    PredictionOf(ToolProbability)]
                           ELSE Head(tool_runs)[k]]
    /\ tool_runs' = Tail(tool_runs)
    /\ tool_isLoading' = FALSE
    /\ UNCHANGED <<tool_steps, tool_sent, tool_frame>>

NextTool ==
    \/ addLocation
    \/ removeLocation
    \/ updateLocation
    \/ runComparison
    \/ ComparisonSettled

SpecTool == InitTool /\ [][NextTool]_vars

-----------------------------------------------------------------------------
(* Properties: the comparison tool *)

\* C29: every request sent to /predict has all 13 fields set to finite
\* numbers.
C29_SentFieldsFinite ==
    \A r \in tool_sent : \A f \in Fields : IsFinite(r[f])

\* C30: the tool never holds more than 3 locations, whatever the order of
\* additions, removals, edits and comparisons starting and completing, and
\* addLocation on a list of 3 leaves the list as it is.
C30_AtMostThreeLocations ==
    /\ [](Len(locations) <= 3)
    /\ [][(addLocation /\ Len(locations) >= 3) => UNCHANGED locations]_vars

\* three locations are held and a fourth addLocation has left them so
C30_Witness ==
    /\ locations = <<newLocation(1), newLocation(2), newLocation(3)>>
    /\ tool_steps = 4

====
